---- MODULE Spec2Model ----
\* CafeVibe (cafesim): the order-fulfilment core of the game's main script.
\* State: gameState, physicsState, miniGameState, the customer objects, the
\* pending timers. One action per event handler / timer callback / animation
\* frame callback. Handlers are written as functions from the world (a record
\* of all the state) to the world, so a handler that calls another handler is
\* the composition of the two, as in the script.
EXTENDS Integers, Sequences, FiniteSets, TLC

VARIABLES
    gameState,      \* isPaused, isPlaying, money, rating (tenths), customersServed, activeOrders, customers, ownedUpgrades
    physicsState,   \* grabbedObject, isGrabbing
    miniGameState,  \* active, type, markerPos + markerErr, markerDirection, targetStart, targetEnd, tapProgress + tapErr, quality, callback
    npc,            \* the customer objects still referenced by the script: id -> userData + walk position
    nextId,         \* identity of the next customer object createCustomerNPC makes
    timers,         \* pending setTimeout callbacks: spawn (one-shot spawnCustomer), loop (spawnCustomerLoop)
    shopOpen,       \* the shop modal is displayed
    upgradeEffects, \* the upgrades whose effect() has run, in the order they ran
    last            \* the last operation that ran, its argument and the notification it showed

vars == <<gameState, physicsState, miniGameState, npc, nextId, timers, shopOpen,
          upgradeEffects, last>>

-----------------------------------------------------------------------------
\* Bounds of the model.

\* customer objects created over a run
MaxSpawned == 2
\* the same, where the queue slots of three customers are compared
MaxSpawnedQueue == 3
\* the same, in the sessions with the shop and in those with every station
MaxSpawnedShop == 1
\* pending timers of one kind (each startGame adds one of each kind)
MaxTimers == 1
MaxTimersRestart == 2
\* updateMiniGame frames are taken while the marker is below this position
\* (tenths of a percent of the bar; the marker starts at 0 and moves 12 a
\* frame, so a timing game gets its first frame)
MaxMarkerPos == 1
\* updateMiniGame frames are taken in a tap game while the taps have lost
\* less than this to decay (hundredths of a tap; a frame takes 3)
MaxTapDecay == 6
\* the frames that decay the counter of one tap game, where every frame
\* between the taps is taken (34 frames take the counter of one tap below 0)
MaxTapFrames == 34

-----------------------------------------------------------------------------
\* The registry (config script: not among the sources; modelled from the
\* specification's data model, section 3).

MAX_CUSTOMERS == 2
NUM_QUEUE_POSITIONS == 2
STARTING_MONEY == 100

Drinks == {"espresso", "latte"}
Pastries == {"croissant"}
MENU_ITEMS == Drinks \cup Pastries

ItemType(id) == IF id \in Pastries THEN "pastry" ELSE "drink"

\* DRINK_RECIPES[id]: the ingredients the recipe requires
DRINK_RECIPES(id) ==
    CASE id = "espresso" -> {"espresso"}
      [] id = "latte"    -> {"espresso", "milk"}
      [] OTHER           -> {}

HasRecipe(id) == id \in Drinks

\* gameState.menuPrices[id] || 4
MenuPrice(id) ==
    CASE id = "espresso"  -> 3
      [] id = "latte"     -> 5
      [] id = "croissant" -> 4
      [] OTHER            -> 4

\* UPGRADES: the upgrades the shop sells, and the price of each
UPGRADES == {"grinder", "decor"}

UpgradePrice(id) == IF id = "grinder" THEN 60 ELSE 150

-----------------------------------------------------------------------------
\* Sequence helpers (Array.prototype.indexOf / findIndex / splice).

\* 1-based index of the first x in s, 0 when absent (JS: -1)
IndexOf(s, x) ==
    IF \E i \in 1..Len(s) : s[i] = x
    THEN CHOOSE i \in 1..Len(s) : s[i] = x /\ \A j \in 1..(i - 1) : s[j] # x
    ELSE 0

\* s.splice(i, 1)
RemoveAt(s, i) == SubSeq(s, 1, i - 1) \o SubSeq(s, i + 1, Len(s))

RECURSIVE SumPrices(_)
SumPrices(items) ==
    IF items = <<>> THEN 0 ELSE MenuPrice(Head(items)) + SumPrices(Tail(items))

Min(a, b) == IF a < b THEN a ELSE b
Max(a, b) == IF a > b THEN a ELSE b

-----------------------------------------------------------------------------
\* The doubles of the mini-games. markerPos and tapProgress are IEEE doubles
\* that the script steps by 1.2 and 0.03, which no double holds exactly. The
\* model holds such a double x as a pair <<t, e>> of integers: t is x in
\* units of 1/S (tenths of a percent for the marker, S = 10; hundredths of a
\* tap for the counter, S = 100) as exact arithmetic would give it, and e is
\* what the double is off by, in units of 1 / (S * 2^k):
\*     x = t / S + e / (S * 2^k),
\* with k = 52 for the marker and k = 58 for the counter (the doubles 1.2
\* and 0.03 are whole multiples of 2^-52 and 2^-58, and so is every double
\* the script reaches from them). A sum is exact in <<t, e>>; the double the
\* script stores is the sum rounded to 53 significant bits, ties to even.

Pow2(n) == 2 ^ n

\* 2^j modulo m, for m = 5 and m = 25 (2^20 is 1 modulo both)
Pow2Mod(j, m) == Pow2(j % 20) % m

\* S = 2^TwoPart(S) * OddPart(S)
TwoPart(S) == IF S = 10 THEN 1 ELSE 2
OddPart(S) == IF S = 10 THEN 5 ELSE 25

\* the double <<t, e>> compared with c / S, which it holds exactly
FGeq(t, e, c) == t > c \/ (t = c /\ e >= 0)
FLeq(t, e, c) == t < c \/ (t = c /\ e <= 0)
FGt(t, e, c) == t > c \/ (t = c /\ e > 0)

\* x >= 2^c
FAtLeastPow2(t, e, S, c) ==
    IF c >= 0 THEN FGeq(t, e, S * Pow2(c)) ELSE FGeq(t * Pow2(0 - c), e, S)

\* x > 0 rounded to 53 significant bits. With 2^ex <= x < 2^(ex + 1) the
\* doubles are 2^(ex - 52) apart: the low d = ex - 52 + k bits of
\* n = x * 2^k go, to the nearest, a tie to the even neighbour. The low bits
\* of n = (t * 2^k + e) / S are those of its numerator modulo S * 2^(d + 1).
FRoundPos(t, e, S, k) ==
    IF ~FAtLeastPow2(t, e, S, -8) THEN <<t, e>>
    ELSE
    LET ex == CHOOSE c \in -8..6 :
                FAtLeastPow2(t, e, S, c) /\ ~FAtLeastPow2(t, e, S, c + 1)
        d == ex - 52 + k
    IN  IF d <= 0 THEN <<t, e>>
        ELSE
        LET m == d + 1
            s2 == TwoPart(S)
            odd == OddPart(S)
            num == (Pow2(m + s2) * (((t % odd) * Pow2Mod(k - m - s2, odd)) % odd) + e)
                       % (S * Pow2(m))
            n == num \div S
            r == n % Pow2(d)
            bit == n \div Pow2(d)
            half == Pow2(d - 1)
        IN  IF r > half \/ (r = half /\ bit = 1)
            THEN <<t, e + S * (Pow2(d) - r)>>
            ELSE <<t, e - S * r>>

\* the double nearest to the exact <<t, e>>
FRound(t, e, S, k) ==
    IF FGt(t, e, 0) THEN FRoundPos(t, e, S, k)
    ELSE LET a == FRoundPos(0 - t, 0 - e, S, k) IN <<0 - a[1], 0 - a[2]>>

\* the marker: tenths of a percent, step 1.2 = 12/10 - 2/(10 * 2^52)
MarkerS == 10
MarkerK == 52
MarkerStep == <<12, -2>>

\* the tap counter: hundredths, decay 0.03 = 3/100 - 32/(100 * 2^58)
TapS == 100
TapK == 58
TapDecay == <<3, -32>>

-----------------------------------------------------------------------------
\* Initial values.

\* gameState.ownedUpgrades is undefined until the first purchase, which makes
\* it []; the script reads the two alike, and the model holds <<>> for both.

NoItem == [itemType |-> "none", contents |-> {}, quality |-> 0]

NoCallback == "null"

InitGameState ==
    [isPaused |-> FALSE, isPlaying |-> FALSE, money |-> 100, rating |-> 50,
     customersServed |-> 0, activeOrders |-> <<>>, customers |-> <<>>,
     ownedUpgrades |-> <<>>]

InitPhysicsState == [grabbedObject |-> NoItem, isGrabbing |-> FALSE]

\* positions in tenths of a percent of the bar, tapProgress in hundredths of
\* a tap; markerErr and tapErr are what the doubles are off by (0: exact)
InitMiniGameState ==
    [active |-> FALSE, type |-> "null", markerPos |-> 0, markerErr |-> 0,
     markerDirection |-> 1, targetStart |-> 350, targetEnd |-> 650,
     tapProgress |-> 0, tapErr |-> 0, quality |-> 0, callback |-> NoCallback]

Init ==
    /\ gameState = InitGameState
    /\ physicsState = InitPhysicsState
    /\ miniGameState = InitMiniGameState
    /\ npc = <<>>
    /\ nextId = 1
    /\ timers = [spawn |-> 0, loop |-> 0]
    /\ shopOpen = FALSE
    /\ upgradeEffects = <<>>
    /\ last = [op |-> "init", arg |-> 0, note |-> ""]

\* the world: all the state, as the handlers see it
World ==
    [gs |-> gameState, ps |-> physicsState, mg |-> miniGameState, npc |-> npc,
     nextId |-> nextId, timers |-> timers, shopOpen |-> shopOpen,
     upgradeEffects |-> upgradeEffects, last |-> last]

Commit(w) ==
    /\ gameState' = w.gs
    /\ physicsState' = w.ps
    /\ miniGameState' = w.mg
    /\ npc' = w.npc
    /\ nextId' = w.nextId
    /\ timers' = w.timers
    /\ shopOpen' = w.shopOpen
    /\ upgradeEffects' = w.upgradeEffects
    /\ last' = w.last

\* The operations whose runs `last` tells apart; any other is recorded as
\* "other", with no argument and no notification.
Observed ==
    {"serveToCustomer", "spawnCustomer", "buyUpgrade", "grabCup", "grabPastry",
     "startMiniGame", "handleMiniGameInput", "dropItem", "trashItem",
     "throwItem", "addToCup"}

Other == [op |-> "other", arg |-> 0, note |-> ""]

Ran(w, op, arg, note) ==
    [w EXCEPT !.last = IF op \in Observed
                       THEN [op |-> op, arg |-> arg, note |-> note]
                       ELSE Other]

-----------------------------------------------------------------------------
\* Order generation.

\* generateOrder with the pastry pushed before the drink
generateOrder_pastryFirst ==
    {<<d>> : d \in Drinks} \cup {<<p, d>> : d \in Drinks, p \in Pastries}

\* generateOrder(): one drink, sometimes followed by one pastry. The random
\* draws are the input: every list the function can return.
generateOrder ==
    {<<d>> : d \in Drinks} \cup {<<d, p>> : d \in Drinks, p \in Pastries}

-----------------------------------------------------------------------------
\* Customers.

\* Positions are not part of the model: a frame callback that only moves a
\* customer changes nothing here, so the frames modelled are the ones that
\* find the customer at its slot (entering) or past the door (leaving).

\* animateCustomerLeave(customer): state leaving, then the first animate()
\* call runs at once: one step towards the door, and a frame is requested.
animateCustomerLeave(w, c) ==
    [w EXCEPT !.npc[c].state = "leaving"]

\* leaveFrame with the splice of gameState.customers left out
leaveFrame_keepInList(w, c) ==
    LET w0 == Ran(w, "leaveFrame", c, "") IN
    IF w.npc[c].state # "leaving" THEN w0
    ELSE [w0 EXCEPT !.npc = [d \in (DOMAIN w.npc) \ {c} |-> w.npc[d]]]

\* the animate closure of animateCustomerLeave, in the frame that finds the
\* customer past the door (position.z >= 12): the customer is removed
leaveFrame(w, c) ==
    LET w0 == Ran(w, "leaveFrame", c, "") IN
    IF w.npc[c].state # "leaving" THEN w0
    ELSE
        LET idx == IndexOf(w.gs.customers, c) IN
        [w0 EXCEPT
            !.gs.customers = IF idx > 0 THEN RemoveAt(@, idx) ELSE @,
            !.npc = [d \in (DOMAIN w.npc) \ {c} |-> w.npc[d]]]

\* addOrder(customer)
addOrder(w, c) ==
    [w EXCEPT !.gs.activeOrders =
        Append(@, [customer |-> c, items |-> w.npc[c].order])]

\* animateCustomerEnter(customer): the slot is read once, from the customer's
\* index in the list; the first animate() call runs at once and finds the
\* customer (at the street) far from its slot.
animateCustomerEnter(w, c) ==
    LET queueIndex == IndexOf(w.gs.customers, c) - 1 IN
    [w EXCEPT !.npc[c].slot = queueIndex % NUM_QUEUE_POSITIONS]

\* enterFrame with the addOrder call left out
enterFrame_noOrder(w, c) ==
    LET w0 == Ran(w, "enterFrame", c, "") IN
    IF w.npc[c].state # "entering" THEN w0
    ELSE [w0 EXCEPT !.npc[c].state = "waiting"]

\* the animate closure of animateCustomerEnter, in the frame that finds the
\* customer at its slot (dist <= 0.1)
enterFrame(w, c) ==
    LET w0 == Ran(w, "enterFrame", c, "") IN
    IF w.npc[c].state # "entering" THEN w0
    ELSE addOrder([w0 EXCEPT !.npc[c].state = "waiting"], c)

\* spawnCustomer with the cap compared by > instead of >=
spawnCustomer_offByOne(w, order) ==
    LET w0 == Ran(w, "spawnCustomer", 0, "") IN
    IF Len(w.gs.customers) > MAX_CUSTOMERS THEN w0
    ELSE
        LET c == w.nextId
            w1 == [w0 EXCEPT
                !.npc = @ @@ (c :> [state |-> "entering", order |-> order,
                                    slot |-> 0]),
                !.nextId = @ + 1,
                !.gs.customers = Append(@, c),
                !.last.arg = c]
        IN animateCustomerEnter(w1, c)

\* spawnCustomer(), with the order generateOrder() draws
spawnCustomer(w, order) ==
    LET w0 == Ran(w, "spawnCustomer", 0, "") IN
    IF Len(w.gs.customers) >= MAX_CUSTOMERS THEN w0
    ELSE
        LET c == w.nextId
            w1 == [w0 EXCEPT
                !.npc = @ @@ (c :> [state |-> "entering", order |-> order,
                                    slot |-> 0]),
                !.nextId = @ + 1,
                !.gs.customers = Append(@, c),
                !.last.arg = c]
        IN animateCustomerEnter(w1, c)

\* spawnCustomerLoop(): arms the loop timer while the session is on
spawnCustomerLoop(w) ==
    IF ~w.gs.isPlaying THEN w
    ELSE [w EXCEPT !.timers.loop = @ + 1]

\* the callback of the timer spawnCustomerLoop arms
loopTimer(w, order) ==
    LET w0 == Ran([w EXCEPT !.timers.loop = @ - 1], "loopTimer", 0, "")
        w1 == IF w0.gs.isPlaying /\ ~w0.gs.isPaused
                 /\ Len(w0.gs.customers) < MAX_CUSTOMERS
              THEN spawnCustomer(w0, order)
              ELSE w0
    IN spawnCustomerLoop(w1)

\* the callback of setTimeout(spawnCustomer, 1000)
spawnTimer(w, order) ==
    spawnCustomer([w EXCEPT !.timers.spawn = @ - 1], order)

-----------------------------------------------------------------------------
\* Game flow.

startGame(w) ==
    LET w0 == Ran(w, "startGame", 0, "")
        w1 == [w0 EXCEPT
            !.gs.isPlaying = TRUE,
            !.gs.money = STARTING_MONEY,
            !.gs.rating = 50,
            !.gs.customersServed = 0,
            !.gs.activeOrders = <<>>,
            !.gs.customers = <<>>,
            !.timers.spawn = @ + 1]
    IN spawnCustomerLoop(w1)

togglePause(w) ==
    [Ran(w, "togglePause", 0, "") EXCEPT !.gs.isPaused = ~@]

resumeGame(w) ==
    [Ran(w, "resumeGame", 0, "") EXCEPT !.gs.isPaused = FALSE]

quitToMenu(w) ==
    [Ran(w, "quitToMenu", 0, "") EXCEPT
        !.gs.isPlaying = FALSE,
        !.gs.isPaused = FALSE,
        !.gs.customers = <<>>,
        !.gs.activeOrders = <<>>]

-----------------------------------------------------------------------------
\* Held items.

NewCup == [itemType |-> "cup", contents |-> {}, quality |-> 100]

\* a pastry has no contents record
NewPastry == [itemType |-> "pastry", contents |-> {}, quality |-> 100]

Holding(item) == [grabbedObject |-> item, isGrabbing |-> item # NoItem]

grabCup(w) ==
    [Ran(w, "grabCup", 0, "Cup grabbed!") EXCEPT !.ps = Holding(NewCup)]

grabPastry(w) ==
    [Ran(w, "grabPastry", 0, "") EXCEPT !.ps = Holding(NewPastry)]

dropItem(w) ==
    LET w0 == Ran(w, "dropItem", 0, "") IN
    IF w.ps.grabbedObject = NoItem THEN w0
    ELSE [w0 EXCEPT !.ps = Holding(NoItem)]

\* throwItem(): the held item leaves the hand as it does in dropItem
\* (with more speed); the function looks at nothing but the hand
throwItem(w) ==
    LET w0 == Ran(w, "throwItem", 0, "") IN
    IF w.ps.grabbedObject = NoItem THEN w0
    ELSE [w0 EXCEPT !.ps = Holding(NoItem)]

trashItem(w) ==
    LET w0 == Ran(w, "trashItem", 0, "") IN
    IF w.ps.grabbedObject = NoItem THEN w0
    ELSE [Ran(w, "trashItem", 0, "Trashed!") EXCEPT !.ps = Holding(NoItem)]

\* addToCup(cup, contentType). The closures that call it hold the cup that
\* was in hand when the mini-game started; while the game is active the hand
\* holds that cup or, after a throwItem, nothing (every press goes to the
\* game), and a cup that has left the hand is out of the state: nothing
\* picks it up or reads it again.
addToCup(w, contentType) ==
    IF w.ps.grabbedObject.itemType # "cup" THEN w
    ELSE [w EXCEPT !.ps.grabbedObject.contents = @ \cup {contentType}]

-----------------------------------------------------------------------------
\* Mini-games.

startMiniGame(w, type, callback, targetStart) ==
    LET w0 == Ran(w, "startMiniGame", 0, "") IN
    [w0 EXCEPT !.mg =
        [@ EXCEPT !.active = TRUE, !.type = type, !.callback = callback,
                  !.quality = 0, !.markerPos = 0, !.markerErr = 0,
                  !.markerDirection = 1, !.tapProgress = 0, !.tapErr = 0,
                  !.targetStart = IF type = "timing" THEN targetStart ELSE @,
                  !.targetEnd = IF type = "timing" THEN targetStart + 200 ELSE @]]

\* timingQuality with the perfect zone as wide as the good one
timingQuality_noMargin(pos, err, targetStart, targetEnd) ==
    LET inPerfect == FGeq(pos, err, targetStart) /\ FLeq(pos, err, targetEnd)
    IN  IF inPerfect THEN 100
        ELSE IF FGeq(pos, err, targetStart - 100) /\ FLeq(pos, err, targetEnd + 100)
        THEN 40
        ELSE 10

\* the quality of a timing-game input with the marker at the double
\* <<pos, err>>. The window's ends are whole halves of a percent, which a
\* double holds exactly, as it does their sums with 5 and 10.
timingQuality(pos, err, targetStart, targetEnd) ==
    LET inPerfect == FGeq(pos, err, targetStart + 50) /\ FLeq(pos, err, targetEnd - 50)
        inGood == FGeq(pos, err, targetStart) /\ FLeq(pos, err, targetEnd)
    IN  IF inPerfect THEN 100
        ELSE IF inGood THEN 70
        ELSE IF FGeq(pos, err, targetStart - 100) /\ FLeq(pos, err, targetEnd + 100)
        THEN 40
        ELSE 10

\* the quality of a finished tap game, elapsed ms after it started
tapQuality(elapsed) ==
    IF elapsed < 2000 THEN 100 ELSE IF elapsed < 3500 THEN 70 ELSE 40

tapRequired == 12

\* endMiniGame that leaves the session active
endMiniGame_staysActive(w) ==
    IF w.mg.callback # NoCallback
    THEN [addToCup(w, w.mg.callback) EXCEPT !.last.note = @ \o "callback"]
    ELSE w

\* endMiniGame(): the callback, then active = false. The run of
\* handleMiniGameInput that called it is recorded with a note of each run of
\* the callback.
endMiniGame(w) ==
    LET w1 == IF w.mg.callback # NoCallback
              THEN [addToCup(w, w.mg.callback) EXCEPT !.last.note = @ \o "callback"]
              ELSE w
    IN [w1 EXCEPT !.mg.active = FALSE]

\* handleMiniGameInput with the taps compared by > instead of >=
handleMiniGameInput_strict(w, elapsed) ==
    LET w0 == Ran(w, "handleMiniGameInput", 0, "") IN
    IF ~w.mg.active THEN w0
    ELSE IF w.mg.type = "timing" THEN
        endMiniGame([w0 EXCEPT !.mg.quality =
            timingQuality(w.mg.markerPos, w.mg.markerErr,
                          w.mg.targetStart, w.mg.targetEnd)])
    ELSE IF w.mg.type = "tap" THEN
        LET sum == FRound(w.mg.tapProgress + 100, w.mg.tapErr, TapS, TapK)
            w1 == [w0 EXCEPT !.mg.tapProgress = sum[1], !.mg.tapErr = sum[2]]
        IN
        IF FGt(sum[1], sum[2], tapRequired * 100)
        THEN endMiniGame([w1 EXCEPT !.mg.quality = tapQuality(elapsed),
                                    !.last.arg = elapsed])
        ELSE w1
    ELSE w0

\* handleMiniGameInput(), elapsed being Date.now() - startTime, which the
\* input that completes a tap game reads (and the run is recorded with)
handleMiniGameInput(w, elapsed) ==
    LET w0 == Ran(w, "handleMiniGameInput", 0, "") IN
    IF ~w.mg.active THEN w0
    ELSE IF w.mg.type = "timing" THEN
        endMiniGame([w0 EXCEPT !.mg.quality =
            timingQuality(w.mg.markerPos, w.mg.markerErr,
                          w.mg.targetStart, w.mg.targetEnd)])
    ELSE IF w.mg.type = "tap" THEN
        LET sum == FRound(w.mg.tapProgress + 100, w.mg.tapErr, TapS, TapK)
            w1 == [w0 EXCEPT !.mg.tapProgress = sum[1], !.mg.tapErr = sum[2]]
        IN
        IF FGeq(sum[1], sum[2], tapRequired * 100)
        THEN endMiniGame([w1 EXCEPT !.mg.quality = tapQuality(elapsed),
                                    !.last.arg = elapsed])
        ELSE w1
    ELSE w0

\* updateMiniGame(), once per rendered frame: markerPos += direction * 1.2
\* and tapProgress -= 0.03 in doubles (direction * 1.2 is exact)
updateMiniGame(w) ==
    LET w0 == Ran(w, "updateMiniGame", 0, "") IN
    IF ~w.mg.active THEN w0
    ELSE IF w.mg.type = "timing" THEN
        LET pos == FRound(w.mg.markerPos + w.mg.markerDirection * MarkerStep[1],
                          w.mg.markerErr + w.mg.markerDirection * MarkerStep[2],
                          MarkerS, MarkerK)
        IN
        [w0 EXCEPT !.mg.markerPos = pos[1], !.mg.markerErr = pos[2],
                   !.mg.markerDirection =
                        IF FGeq(pos[1], pos[2], 1000) \/ FLeq(pos[1], pos[2], 0)
                        THEN -@ ELSE @]
    ELSE IF w.mg.type = "tap" THEN
        IF FGt(w.mg.tapProgress, w.mg.tapErr, 0)
        THEN LET dif == FRound(w.mg.tapProgress - TapDecay[1],
                               w.mg.tapErr - TapDecay[2], TapS, TapK)
             IN [w0 EXCEPT !.mg.tapProgress = dif[1], !.mg.tapErr = dif[2]]
        ELSE w0
    ELSE w0

\* cancelMiniGame that runs the session's callback before it ends it
cancelMiniGame_runsCallback(w) ==
    [addToCup(Ran(w, "cancelMiniGame", 0, "Cancelled"), w.mg.callback) EXCEPT
        !.mg.active = FALSE, !.mg.quality = 0]

cancelMiniGame(w) ==
    [Ran(w, "cancelMiniGame", 0, "Cancelled") EXCEPT
        !.mg.active = FALSE, !.mg.quality = 0]

-----------------------------------------------------------------------------
\* Serving.

\* recipeMatches asking for the recipe's ingredients and no other
recipeMatches_exact(id, contents) == DRINK_RECIPES(id) = contents

\* the recipe of drink id is satisfied by the cup's contents
recipeMatches(id, contents) == DRINK_RECIPES(id) \subseteq contents

\* matchFound with the recipe check left out: any cup matches any drink
matchFound_anyCup(held, items) ==
    IF held.itemType = "pastry"
    THEN \E i \in 1..Len(items) : ItemType(items[i]) = "pastry"
    ELSE IF held.itemType = "cup"
    THEN \E i \in 1..Len(items) : ItemType(items[i]) = "drink"
    ELSE FALSE

\* matchFound with a held pastry matching whatever the order lists
matchFound_pastryAny(held, items) ==
    IF held.itemType = "pastry"
    THEN Len(items) > 0
    ELSE IF held.itemType = "cup"
    THEN \E i \in 1..Len(items) :
            /\ ItemType(items[i]) = "drink"
            /\ HasRecipe(items[i])
            /\ recipeMatches(items[i], held.contents)
    ELSE FALSE

\* the match decision of serveToCustomer
matchFound(held, items) ==
    IF held.itemType = "pastry"
    THEN \E i \in 1..Len(items) : ItemType(items[i]) = "pastry"
    ELSE IF held.itemType = "cup"
    THEN \E i \in 1..Len(items) :
            /\ ItemType(items[i]) = "drink"
            /\ HasRecipe(items[i])
            /\ recipeMatches(items[i], held.contents)
    ELSE FALSE

\* findOrderIndex taking the first order on the list, whoever placed it
findOrderIndex_anyCustomer(orders, c) ==
    IF Len(orders) > 0 THEN 1 ELSE 0

\* activeOrders.findIndex(o => o.customer === customer), 0 when none (the
\* uuid fallback finds the same object)
findOrderIndex(orders, c) ==
    IF \E i \in 1..Len(orders) : orders[i].customer = c
    THEN CHOOSE i \in 1..Len(orders) :
            orders[i].customer = c /\ \A j \in 1..(i - 1) : orders[j].customer # c
    ELSE 0

\* tipMultiplier with the thresholds compared by > instead of >=
tipMultiplier_strict(quality) ==
    IF quality > 80 THEN 13 ELSE IF quality > 50 THEN 11 ELSE 8

\* tenths
tipMultiplier(quality) ==
    IF quality >= 80 THEN 13 ELSE IF quality >= 50 THEN 11 ELSE 8

\* ratingChange with no penalty for a poor drink
ratingChange_noPenalty(quality) ==
    IF quality >= 80 THEN 1 ELSE 0

\* tenths of a star
ratingChange(quality) ==
    IF quality >= 80 THEN 1 ELSE IF quality >= 50 THEN 0 ELSE -1

\* completeOrder with the splice of gameState.activeOrders left out
completeOrder_keepOrder(w, orderIndex, quality) ==
    LET order == w.gs.activeOrders[orderIndex]
        payment == SumPrices(order.items)
        tip == (payment * 2 * tipMultiplier(quality)) \div 100
        total == payment + tip
        w1 == [w EXCEPT
            !.gs.money = @ + total,
            !.gs.customersServed = @ + 1,
            !.gs.rating = Max(10, Min(50, @ + ratingChange(quality)))]
    IN [animateCustomerLeave(w1, order.customer) EXCEPT !.last.note = "+$"]

completeOrder(w, orderIndex, quality) ==
    LET order == w.gs.activeOrders[orderIndex]
        payment == SumPrices(order.items)
        tip == (payment * 2 * tipMultiplier(quality)) \div 100
        total == payment + tip
        w1 == [w EXCEPT
            !.gs.money = @ + total,
            !.gs.customersServed = @ + 1,
            !.gs.rating = Max(10, Min(50, @ + ratingChange(quality))),
            !.gs.activeOrders = RemoveAt(@, orderIndex)]
    IN [animateCustomerLeave(w1, order.customer) EXCEPT !.last.note = "+$"]

\* serveToCustomer with the held item removed before the checks, not after
\* the match
serveToCustomer_consumeFirst(w, c) ==
    LET held == w.ps.grabbedObject
        orderIndex == findOrderIndex(w.gs.activeOrders, c)
        quality == IF held.quality = 0 THEN 100 ELSE held.quality
        w0 == [w EXCEPT !.ps = Holding(NoItem)]
    IN
    IF held = NoItem
    THEN Ran(w, "serveToCustomer", c, "Nothing to serve!")
    ELSE IF w.npc[c].state = "entering"
    THEN Ran(w0, "serveToCustomer", c, "Wait!")
    ELSE IF orderIndex = 0
    THEN Ran(w0, "serveToCustomer", c, "Order pending")
    ELSE IF matchFound(held, w.gs.activeOrders[orderIndex].items)
    THEN completeOrder(Ran(w0, "serveToCustomer", c, ""), orderIndex, quality)
    ELSE Ran(w0, "serveToCustomer", c, "Wrong item!")

\* serveToCustomer with a wrong item costing a tenth of a star
serveToCustomer_wrongItemPenalty(w, c) ==
    LET held == w.ps.grabbedObject
        orderIndex == findOrderIndex(w.gs.activeOrders, c)
        quality == IF held.quality = 0 THEN 100 ELSE held.quality
    IN
    IF held = NoItem
    THEN Ran(w, "serveToCustomer", c, "Nothing to serve!")
    ELSE IF w.npc[c].state = "entering"
    THEN Ran(w, "serveToCustomer", c, "Wait!")
    ELSE IF orderIndex = 0
    THEN Ran(w, "serveToCustomer", c, "Order pending")
    ELSE IF matchFound(held, w.gs.activeOrders[orderIndex].items)
    THEN [completeOrder(Ran(w, "serveToCustomer", c, ""), orderIndex, quality)
            EXCEPT !.ps = Holding(NoItem)]
    ELSE [Ran(w, "serveToCustomer", c, "Wrong item!") EXCEPT
            !.gs.rating = Max(10, @ - 1)]

\* serveToCustomer with a wrong item sending the customer away
serveToCustomer_wrongItemLeaves(w, c) ==
    LET held == w.ps.grabbedObject
        orderIndex == findOrderIndex(w.gs.activeOrders, c)
        quality == IF held.quality = 0 THEN 100 ELSE held.quality
    IN
    IF held = NoItem
    THEN Ran(w, "serveToCustomer", c, "Nothing to serve!")
    ELSE IF w.npc[c].state = "entering"
    THEN Ran(w, "serveToCustomer", c, "Wait!")
    ELSE IF orderIndex = 0
    THEN Ran(w, "serveToCustomer", c, "Order pending")
    ELSE IF matchFound(held, w.gs.activeOrders[orderIndex].items)
    THEN [completeOrder(Ran(w, "serveToCustomer", c, ""), orderIndex, quality)
            EXCEPT !.ps = Holding(NoItem)]
    ELSE animateCustomerLeave(Ran(w, "serveToCustomer", c, "Wrong item!"), c)

\* serveToCustomer(customerObj). A customer object always carries
\* userData.order, so a customer without an active order gets the
\* "Order pending" notification.
serveToCustomer(w, c) ==
    LET held == w.ps.grabbedObject
        orderIndex == findOrderIndex(w.gs.activeOrders, c)
        quality == IF held.quality = 0 THEN 100 ELSE held.quality
    IN
    IF held = NoItem
    THEN Ran(w, "serveToCustomer", c, "Nothing to serve!")
    ELSE IF w.npc[c].state = "entering"
    THEN Ran(w, "serveToCustomer", c, "Wait!")
    ELSE IF orderIndex = 0
    THEN Ran(w, "serveToCustomer", c, "Order pending")
    ELSE IF matchFound(held, w.gs.activeOrders[orderIndex].items)
    THEN [completeOrder(Ran(w, "serveToCustomer", c, ""), orderIndex, quality)
            EXCEPT !.ps = Holding(NoItem)]
    ELSE Ran(w, "serveToCustomer", c, "Wrong item!")

-----------------------------------------------------------------------------
\* Input.

\* what the ray from the camera hits: nothing, a station or a customer object
Stations == {"espresso", "milk", "trash", "cup_dispenser", "pastry"}
SyrupTypes == {"vanilla", "caramel", "chocolate"}

NoTarget == [type |-> "none", syrupType |-> "", customer |-> 0]
StationTarget(t) == [type |-> t, syrupType |-> "", customer |-> 0]
SyrupTarget(s) == [type |-> "syrup", syrupType |-> s, customer |-> 0]
CustomerTarget(c) == [type |-> "customer", syrupType |-> "", customer |-> c]

\* tryInteract with the dispenser and the pastry case working while an item
\* is held
tryInteract_grabAnyway(w, target, targetStart, elapsed) ==
    IF w.mg.active THEN handleMiniGameInput(w, elapsed)
    ELSE IF w.ps.isGrabbing /\ target.type \notin {"cup_dispenser", "pastry"} THEN
        LET heldType == w.ps.grabbedObject.itemType IN
        IF target.type = "none" THEN dropItem(w)
        ELSE IF target.type = "espresso" THEN
            IF heldType = "cup" THEN startMiniGame(w, "timing", "espresso", targetStart)
            ELSE Ran(w, "tryInteract", 0, "")
        ELSE IF target.type = "milk" THEN
            IF heldType = "cup" THEN startMiniGame(w, "tap", "milk", targetStart)
            ELSE Ran(w, "tryInteract", 0, "")
        ELSE IF target.type = "syrup" THEN
            IF heldType = "cup" THEN addToCup(Ran(w, "addToCup", 0, ""), target.syrupType)
            ELSE Ran(w, "tryInteract", 0, "")
        ELSE IF target.type = "trash" THEN trashItem(w)
        ELSE IF target.type = "customer" THEN serveToCustomer(w, target.customer)
        ELSE dropItem(w)
    ELSE
        IF target.type = "cup_dispenser" THEN grabCup(w)
        ELSE IF target.type = "pastry" THEN grabPastry(w)
        ELSE Ran(w, "tryInteract", 0, "")

\* tryInteract with the mini-game taking only the presses that hit nothing
tryInteract_notModal(w, target, targetStart, elapsed) ==
    IF w.mg.active /\ target.type = "none" THEN handleMiniGameInput(w, elapsed)
    ELSE IF w.ps.isGrabbing THEN
        LET heldType == w.ps.grabbedObject.itemType IN
        IF target.type = "none" THEN dropItem(w)
        ELSE IF target.type = "espresso" THEN
            IF heldType = "cup" THEN startMiniGame(w, "timing", "espresso", targetStart)
            ELSE Ran(w, "tryInteract", 0, "")
        ELSE IF target.type = "milk" THEN
            IF heldType = "cup" THEN startMiniGame(w, "tap", "milk", targetStart)
            ELSE Ran(w, "tryInteract", 0, "")
        ELSE IF target.type = "syrup" THEN
            IF heldType = "cup" THEN addToCup(Ran(w, "addToCup", 0, ""), target.syrupType)
            ELSE Ran(w, "tryInteract", 0, "")
        ELSE IF target.type = "trash" THEN trashItem(w)
        ELSE IF target.type = "customer" THEN serveToCustomer(w, target.customer)
        ELSE dropItem(w)
    ELSE
        IF target.type = "cup_dispenser" THEN grabCup(w)
        ELSE IF target.type = "pastry" THEN grabPastry(w)
        ELSE Ran(w, "tryInteract", 0, "")

\* tryInteract(), target being what the ray hits
tryInteract(w, target, targetStart, elapsed) ==
    IF w.mg.active THEN handleMiniGameInput(w, elapsed)
    ELSE IF w.ps.isGrabbing THEN
        LET heldType == w.ps.grabbedObject.itemType IN
        IF target.type = "none" THEN dropItem(w)
        ELSE IF target.type = "espresso" THEN
            IF heldType = "cup" THEN startMiniGame(w, "timing", "espresso", targetStart)
            ELSE Ran(w, "tryInteract", 0, "")
        ELSE IF target.type = "milk" THEN
            IF heldType = "cup" THEN startMiniGame(w, "tap", "milk", targetStart)
            ELSE Ran(w, "tryInteract", 0, "")
        ELSE IF target.type = "syrup" THEN
            IF heldType = "cup" THEN addToCup(Ran(w, "addToCup", 0, ""), target.syrupType)
            ELSE Ran(w, "tryInteract", 0, "")
        ELSE IF target.type = "trash" THEN trashItem(w)
        ELSE IF target.type = "customer" THEN serveToCustomer(w, target.customer)
        ELSE dropItem(w)
    ELSE
        IF target.type = "cup_dispenser" THEN grabCup(w)
        ELSE IF target.type = "pastry" THEN grabPastry(w)
        ELSE Ran(w, "tryInteract", 0, "")

openShop(w) == [Ran(w, "openShop", 0, "") EXCEPT !.shopOpen = TRUE]

closeShop(w) == [Ran(w, "closeShop", 0, "") EXCEPT !.shopOpen = FALSE]

\* an element of the array
Includes(s, x) == \E i \in 1..Len(s) : s[i] = x

\* buyUpgrade with the price check left out
buyUpgrade_noCheck(w, upgrade) ==
    [Ran(w, "buyUpgrade", UpgradePrice(upgrade), "Purchased!") EXCEPT
        !.gs.money = @ - UpgradePrice(upgrade),
        !.gs.ownedUpgrades = Append(@, upgrade),
        !.upgradeEffects = Append(@, upgrade)]

\* buyUpgrade(upgrade); upgrade.effect() is recorded as having run, and the
\* run is recorded with the price asked
buyUpgrade(w, upgrade) ==
    IF w.gs.money < UpgradePrice(upgrade)
    THEN Ran(w, "buyUpgrade", UpgradePrice(upgrade), "Not enough money!")
    ELSE [Ran(w, "buyUpgrade", UpgradePrice(upgrade), "Purchased!") EXCEPT
            !.gs.money = @ - UpgradePrice(upgrade),
            !.gs.ownedUpgrades = Append(@, upgrade),
            !.upgradeEffects = Append(@, upgrade)]

\* onKeyDown, case 'Escape'
keyEscape(w) ==
    IF w.mg.active THEN cancelMiniGame(w)
    ELSE IF w.shopOpen THEN closeShop(w)
    ELSE togglePause(w)

\* onKeyDown, case 'Tab'
keyTab(w) ==
    IF ~w.gs.isPaused THEN openShop(w) ELSE Ran(w, "keyTab", 0, "")

-----------------------------------------------------------------------------
\* The actions: one per event the browser delivers. The inputs (what the ray
\* hits, the random draws, the clock) are parameters, so that a specification
\* states the inputs it explores.

\* the menu's start button: the menu covers the page while no session is on
StartGame ==
    /\ ~gameState.isPlaying
    /\ timers.spawn < MaxTimers /\ timers.loop < MaxTimers
    /\ Commit(startGame(World))

\* the start button pressed while timers of the session before may still be
\* pending: quitToMenu clears none
StartGameAgain ==
    /\ ~gameState.isPlaying
    /\ timers.spawn < MaxTimersRestart /\ timers.loop < MaxTimersRestart
    /\ Commit(startGame(World))

\* the pause menu's quit button
QuitToMenu ==
    /\ gameState.isPlaying
    /\ Commit(quitToMenu(World))

\* the pause menu's resume button
ResumeGame ==
    /\ gameState.isPlaying /\ gameState.isPaused
    /\ Commit(resumeGame(World))

\* throwItem() is a global function of the script that no code among the
\* sources calls: whatever binds it may call it in any state
ThrowItem == Commit(throwItem(World))

\* onKeyDown: every key is ignored while no session is on
KeyE(targets, targetStarts, elapsed) ==
    /\ gameState.isPlaying
    /\ \E target \in targets, ts \in targetStarts, el \in elapsed :
        Commit(tryInteract(World, target, ts, el))

KeyEscape ==
    /\ gameState.isPlaying
    /\ Commit(keyEscape(World))

KeyTab ==
    /\ gameState.isPlaying
    /\ Commit(keyTab(World))

\* a click on a shop item: renderShop gives an item its onclick while the
\* upgrade is not owned, and the items show while the modal does
BuyUpgrade ==
    /\ shopOpen
    /\ \E upgrade \in UPGRADES :
        /\ ~Includes(gameState.ownedUpgrades, upgrade)
        /\ Commit(buyUpgrade(World, upgrade))

\* a spawn that would make a customer object needs one left within the bound
CanSpawn(maxSpawned) ==
    Len(gameState.customers) >= MAX_CUSTOMERS \/ nextId <= maxSpawned

SpawnTimer(orders, maxSpawned) ==
    /\ timers.spawn > 0
    /\ CanSpawn(maxSpawned)
    /\ \E order \in orders : Commit(spawnTimer(World, order))

LoopTimer(orders, maxSpawned) ==
    /\ timers.loop > 0
    /\ CanSpawn(maxSpawned)
    /\ \E order \in orders : Commit(loopTimer(World, order))

\* requestAnimationFrame callbacks: they run whether or not the session is
\* on or paused. A customer has a frame requested while it is entering or
\* leaving.
EnterFrame ==
    \E c \in DOMAIN npc :
        /\ npc[c].state = "entering"
        /\ Commit(enterFrame(World, c))

LeaveFrameOf(c) ==
    /\ c \in DOMAIN npc
    /\ npc[c].state = "leaving"
    /\ Commit(leaveFrame(World, c))

LeaveFrame == \E c \in DOMAIN npc : LeaveFrameOf(c)

\* the hundredths of a tap that decay has taken off the counter
TapDecayed(tapProgress) == (0 - tapProgress) % 100

MiniGameFrame ==
    /\ miniGameState.active
    /\ miniGameState.markerPos < MaxMarkerPos
    /\ miniGameState.type = "tap" => TapDecayed(miniGameState.tapProgress) < MaxTapDecay
    /\ Commit(updateMiniGame(World))

\* the frames that have decayed the counter: each takes 3 hundredths off
\* the whole taps, and 3 * 67 = 201
TapFrames(tapProgress) == ((0 - tapProgress) * 67) % 100

\* a frame of a tap game, however low the counter
TapFrame ==
    /\ miniGameState.active
    /\ miniGameState.type = "tap"
    /\ TapFrames(miniGameState.tapProgress) < MaxTapFrames
    /\ Commit(updateMiniGame(World))

\* a frame of a timing game, wherever the marker is (the doubles of the
\* marker come back to one they have been at after 197 frames)
TimingFrame ==
    /\ miniGameState.active
    /\ miniGameState.type = "timing"
    /\ Commit(updateMiniGame(World))

-----------------------------------------------------------------------------
\* Spec: the customer and order life cycle. The player works the cup
\* dispenser, the pastry case, the espresso machine, the trash and the
\* customers; every order drawn is an espresso with a croissant.

\* every customer object the ray can hit: interactableObjects keeps a
\* customer until its leave animation removes it
CustomerTargets == {CustomerTarget(c) : c \in DOMAIN npc}

CoreTargets ==
    {NoTarget} \cup CustomerTargets
        \cup {StationTarget(t) : t \in {"espresso", "trash", "cup_dispenser", "pastry"}}

\* the random draw of startMiniGame: targetStart = 30 + Math.random() * 20
CoreTargetStarts == {400}

\* the clock reading of a tap-game input (no tap game is played here)
CoreElapsed == {1500}

CoreOrders == {<<"espresso", "croissant">>}

Next ==
    \/ StartGame
    \/ QuitToMenu
    \/ ResumeGame
    \/ KeyE(CoreTargets, CoreTargetStarts, CoreElapsed)
    \/ KeyEscape
    \/ ThrowItem
    \/ SpawnTimer(CoreOrders, MaxSpawned)
    \/ LoopTimer(CoreOrders, MaxSpawned)
    \/ EnterFrame
    \/ LeaveFrame
    \/ MiniGameFrame

Spec == Init /\ [][Next]_vars

\* FairSpec: the round trip of a customer. The player serves pastries; the
\* session is started, quit and started again; the animation frames of a
\* leaving customer keep firing: each frame moves the customer 0.1 towards
\* the door, so the frame that finds it past the door comes.
TripTargets ==
    {NoTarget, StationTarget("pastry"), StationTarget("trash")} \cup CustomerTargets

NextTrip ==
    \/ StartGame
    \/ QuitToMenu
    \/ KeyE(TripTargets, CoreTargetStarts, CoreElapsed)
    \/ SpawnTimer(CoreOrders, MaxSpawned)
    \/ LoopTimer(CoreOrders, MaxSpawned)
    \/ EnterFrame
    \/ LeaveFrame

FairSpec ==
    /\ Init
    /\ [][NextTrip]_vars
    /\ \A c \in 1..MaxSpawned : WF_vars(LeaveFrameOf(c))

\* SpecLife: the life of the customers. As the round trip, with no assumption
\* on the frames, and with customers whose order the pastry does not answer.
LifeOrders == {<<"espresso", "croissant">>, <<"latte">>}

NextLife ==
    \/ StartGame
    \/ QuitToMenu
    \/ KeyE(TripTargets, CoreTargetStarts, CoreElapsed)
    \/ SpawnTimer(LifeOrders, MaxSpawned)
    \/ LoopTimer(LifeOrders, MaxSpawned)
    \/ EnterFrame
    \/ LeaveFrame

SpecLife == Init /\ [][NextLife]_vars

\* SpecRestart: sessions started, quit and started again before the timers
\* of the session before have fired.
NextRestart ==
    \/ StartGameAgain
    \/ QuitToMenu
    \/ KeyEscape
    \/ SpawnTimer(CoreOrders, MaxSpawned)
    \/ LoopTimer(CoreOrders, MaxSpawned)
    \/ EnterFrame

SpecRestart == Init /\ [][NextRestart]_vars

\* SpecQueue: Spec with a third customer object.
NextQueue ==
    \/ StartGame
    \/ QuitToMenu
    \/ ResumeGame
    \/ KeyE(CoreTargets, CoreTargetStarts, CoreElapsed)
    \/ KeyEscape
    \/ SpawnTimer(CoreOrders, MaxSpawnedQueue)
    \/ LoopTimer(CoreOrders, MaxSpawnedQueue)
    \/ EnterFrame
    \/ LeaveFrame
    \/ MiniGameFrame

SpecQueue == Init /\ [][NextQueue]_vars

\* SpecShop: the session with the shop. The player works the stations and
\* the customers as in Spec, opens the shop with Tab and buys upgrades.
NextShop ==
    \/ StartGame
    \/ QuitToMenu
    \/ KeyE(CoreTargets, CoreTargetStarts, CoreElapsed)
    \/ KeyEscape
    \/ KeyTab
    \/ BuyUpgrade
    \/ SpawnTimer(CoreOrders, MaxSpawnedShop)
    \/ LoopTimer(CoreOrders, MaxSpawnedShop)
    \/ EnterFrame
    \/ LeaveFrame
    \/ MiniGameFrame

SpecShop == Init /\ [][NextShop]_vars

\* SpecMini: the stations and both mini-games. The player works every
\* station and one customer, who asks for a latte; the clock of a tap-game
\* input reads between 1.5 s and 5 s after the start of the game.
MiniTargets ==
    {NoTarget, SyrupTarget("vanilla")} \cup CustomerTargets
        \cup {StationTarget(t) : t \in Stations}

MiniElapsed == {1500, 1999, 2000, 3000, 3499, 3500, 5000}

MiniOrders == {<<"latte">>}

NextMini ==
    \/ StartGame
    \/ KeyE(MiniTargets, CoreTargetStarts, MiniElapsed)
    \/ KeyEscape
    \/ ThrowItem
    \/ SpawnTimer(MiniOrders, MaxSpawnedShop)
    \/ EnterFrame
    \/ LeaveFrame
    \/ MiniGameFrame

SpecMini == Init /\ [][NextMini]_vars

\* SpecTap: the tap game with every frame between the taps. The player takes
\* a cup to the milk steamer and taps.
TapTargets == {StationTarget("cup_dispenser"), StationTarget("milk")}

NextTap ==
    \/ StartGame
    \/ KeyE(TapTargets, CoreTargetStarts, CoreElapsed)
    \/ KeyEscape
    \/ TapFrame

SpecTap == Init /\ [][NextTap]_vars

\* SpecMatch: the match decision of serveToCustomer as a function of the held
\* item and the order. One customer waits with its order; the held item (a
\* pastry, or a cup with any contents) and the order's items are drawn at the
\* start. The player serves, and works the stations that add to the cup.
Ingredients == {"espresso", "milk"} \cup SyrupTypes

MatchHeld == {NewPastry} \cup {[NewCup EXCEPT !.contents = c] : c \in SUBSET Ingredients}

\* the orders generateOrder draws, an order of a pastry alone and an order of
\* a drink with no recipe
MatchOrders == generateOrder \cup {<<"croissant">>, <<"special">>}

InitMatch ==
    /\ \E items \in MatchOrders :
        /\ gameState = [InitGameState EXCEPT
                !.isPlaying = TRUE, !.customers = <<1>>,
                !.activeOrders = <<[customer |-> 1, items |-> items]>>]
        /\ npc = (1 :> [state |-> "waiting", order |-> items, slot |-> 0])
    /\ \E held \in MatchHeld : physicsState = Holding(held)
    /\ miniGameState = InitMiniGameState
    /\ nextId = 2
    /\ timers = [spawn |-> 0, loop |-> 1]
    /\ shopOpen = FALSE
    /\ upgradeEffects = <<>>
    /\ last = Other

MatchTargets ==
    CustomerTargets \cup {SyrupTarget(sy) : sy \in SyrupTypes}
        \cup {StationTarget("espresso"), StationTarget("milk")}

NextMatch ==
    \/ KeyE(MatchTargets, CoreTargetStarts, CoreElapsed)
    \/ MiniGameFrame
    \/ LeaveFrame

SpecMatching == InitMatch /\ [][NextMatch]_vars

\* SpecOrders: the orders of the customers the timers spawn, over every
\* draw of generateOrder.
NextOrders ==
    \/ StartGame
    \/ QuitToMenu
    \/ SpawnTimer(generateOrder, MaxSpawned)
    \/ LoopTimer(generateOrder, MaxSpawned)
    \/ EnterFrame

SpecOrders == Init /\ [][NextOrders]_vars

\* SpecTiming: the timing game with every frame of the marker. The player
\* takes a cup to the espresso machine; startMiniGame draws the window
\* (targetStart = 30 + Math.random() * 20, here 30, 40 and 49.5) and the
\* marker sweeps the bar until the press.
TimingTargetStarts == {300, 400, 495}

TimingTargets ==
    {NoTarget, StationTarget("cup_dispenser"), StationTarget("espresso")}

NextTiming ==
    \/ StartGame
    \/ KeyE(TimingTargets, TimingTargetStarts, CoreElapsed)
    \/ TimingFrame

SpecTiming == Init /\ [][NextTiming]_vars

\* SpecComplete: completeOrder as a function of gameState, the order and the
\* quality. One customer waits with its order; the rating and the order's
\* items are drawn at the start, the quality at the call.
CompleteRatings == {10, 11, 30, 49, 50}

\* the orders generateOrder draws, and orders with an item the menu does not
\* price
CompleteOrders == generateOrder \cup {<<"special">>, <<"latte", "special">>}

CompleteQualities == {0, 10, 40, 49, 50, 70, 79, 80, 90, 100}

InitComplete ==
    /\ \E r \in CompleteRatings, items \in CompleteOrders :
        /\ gameState = [InitGameState EXCEPT
                !.isPlaying = TRUE, !.rating = r, !.customers = <<1>>,
                !.activeOrders = <<[customer |-> 1, items |-> items]>>]
        /\ npc = (1 :> [state |-> "waiting", order |-> items, slot |-> 0])
    /\ physicsState = InitPhysicsState
    /\ miniGameState = InitMiniGameState
    /\ nextId = 2
    /\ timers = [spawn |-> 0, loop |-> 1]
    /\ shopOpen = FALSE
    /\ upgradeEffects = <<>>
    /\ last = Other

\* a call completeOrder(orderIndex, quality), recorded with its quality
CompleteOrderCall(qualities) ==
    \E orderIndex \in 1..Len(gameState.activeOrders), quality \in qualities :
        Commit([completeOrder(World, orderIndex, quality) EXCEPT
                    !.last = [op |-> "completeOrder", arg |-> quality, note |-> "+$"]])

NextComplete ==
    \/ CompleteOrderCall(CompleteQualities)
    \/ LeaveFrame

SpecComplete == InitComplete /\ [][NextComplete]_vars

-----------------------------------------------------------------------------
\* Properties.

Customers == gameState.customers
ActiveOrders == gameState.activeOrders
Held == physicsState.grabbedObject

InList(c) == \E i \in 1..Len(Customers) : Customers[i] = c

\* the positions in activeOrders of the orders that reference customer c
OrdersOf(c) == {i \in 1..Len(ActiveOrders) : ActiveOrders[i].customer = c}

\* the items customer c asked for, as its (first) active order lists them
OrderItems(c) == ActiveOrders[CHOOSE i \in OrdersOf(c) : \A j \in OrdersOf(c) : i <= j].items

\* the specification's match rule (4.4): a pastry matches an order with a
\* pastry line; a cup matches an order with a drink whose recipe is fully
\* present in the cup
SpecMatch(held, items) ==
    \/ /\ held.itemType = "pastry"
       /\ \E i \in 1..Len(items) : items[i] \in Pastries
    \/ /\ held.itemType = "cup"
       /\ \E i \in 1..Len(items) :
            items[i] \in Drinks /\ DRINK_RECIPES(items[i]) \subseteq held.contents

\* the step just taken ran serveToCustomer on customer object c
ServedStep(c) == last'.op = "serveToCustomer" /\ last'.arg = c

\* C1: a serve of a held item that matches the order of the Waiting customer
\* it targets removes exactly that customer's order from activeOrders (every
\* other order stays, in order), moves exactly that customer to Leaving,
\* adds exactly 1 to customersServed and empties the player's hands, all in
\* the one step.
C1_ServeMatchEffects ==
    [][\A c \in DOMAIN npc :
        ( /\ ServedStep(c)
          /\ Held # NoItem
          /\ npc[c].state = "waiting"
          /\ OrdersOf(c) # {}
          /\ SpecMatch(Held, OrderItems(c)) )
        => LET Others(o) == o.customer # c IN
           /\ Cardinality(OrdersOf(c)) = 1
           /\ Len(ActiveOrders') = Len(ActiveOrders) - 1
           /\ ActiveOrders' = SelectSeq(ActiveOrders, Others)
           /\ DOMAIN npc' = DOMAIN npc
           /\ npc'[c] = [npc[c] EXCEPT !.state = "leaving"]
           /\ \A d \in DOMAIN npc \ {c} : npc'[d] = npc[d]
           /\ Customers' = Customers
           /\ gameState'.customersServed = gameState.customersServed + 1
           /\ physicsState' = [grabbedObject |-> NoItem, isGrabbing |-> FALSE]
    ]_vars

\* a serve has just completed an order: the customer served is leaving, the
\* hands are empty, and another customer is still waiting with its order
C1_Witness ==
    /\ last.op = "serveToCustomer" /\ last.note = "+$"
    /\ last.arg \in DOMAIN npc /\ npc[last.arg].state = "leaving"
    /\ OrdersOf(last.arg) = {}
    /\ gameState.customersServed >= 1
    /\ Held = NoItem
    /\ \E d \in DOMAIN npc : npc[d].state = "waiting" /\ OrdersOf(d) # {}

\* C2: a serve of a held item that does not match the target customer's
\* order changes nothing: gameState (activeOrders, customers, money, rating,
\* customersServed), every customer object and the held item stay as they
\* were.
C2_ServeMismatchNoChange ==
    [][\A c \in DOMAIN npc :
        ( /\ ServedStep(c)
          /\ Held # NoItem
          /\ OrdersOf(c) # {}
          /\ ~SpecMatch(Held, OrderItems(c)) )
        => UNCHANGED <<gameState, physicsState, npc>>
    ]_vars

\* a serve has just been refused as the wrong item, the cup still in hand
C2_Witness ==
    /\ last.op = "serveToCustomer" /\ last.note = "Wrong item!"
    /\ Held.itemType = "cup"
    /\ OrdersOf(last.arg) # {}
    /\ ~SpecMatch(Held, OrderItems(last.arg))

\* C3: every order in activeOrders references a customer that is in the
\* customers list.
C3_OrdersReferenceListedCustomers ==
    \A i \in 1..Len(ActiveOrders) : InList(ActiveOrders[i].customer)

\* C4: every Waiting customer in the customers list has exactly one order in
\* activeOrders, and no Entering or Leaving customer in the list has one.
C4_WaitingHasOneOrder ==
    \A i \in 1..Len(Customers) :
        LET c == Customers[i] IN
        /\ c \in DOMAIN npc
        /\ npc[c].state = "waiting" => Cardinality(OrdersOf(c)) = 1
        /\ npc[c].state \in {"entering", "leaving"} => OrdersOf(c) = {}

\* the list holds a Waiting customer with its order and a Leaving one
C4_Witness ==
    /\ \E i \in 1..Len(Customers) :
        npc[Customers[i]].state = "waiting" /\ Cardinality(OrdersOf(Customers[i])) = 1
    /\ \E i \in 1..Len(Customers) : npc[Customers[i]].state = "leaving"

\* a mini-game has just completed (not been cancelled): completion leaves a
\* positive quality, cancellation leaves 0
MiniGameCompleted ==
    miniGameState.active /\ ~miniGameState'.active /\ miniGameState'.quality > 0

\* C5: when a mini-game completes for the held cup, the cup's quality is the
\* mini-game's result quality (the quality serveToCustomer then pays by).
C5_CupQualityFromMiniGame ==
    [][MiniGameCompleted
        => physicsState'.grabbedObject.quality = miniGameState'.quality]_vars

\* C6: a customer is added to the customers list only while the session is
\* on and not paused.
C6_SpawnOnlyWhilePlaying ==
    [][Len(Customers') > Len(Customers)
        => gameState.isPlaying /\ ~gameState.isPaused]_vars

\* C7: no two customers of the list that are Entering or Waiting are sent to
\* the same queue slot.
C7_QueueSlotsDistinct ==
    \A i, j \in 1..Len(Customers) :
        ( /\ i < j
          /\ npc[Customers[i]].state \in {"entering", "waiting"}
          /\ npc[Customers[j]].state \in {"entering", "waiting"} )
        => npc[Customers[i]].slot # npc[Customers[j]].slot

\* C8: the customers list never holds more than MAX_CUSTOMERS customers, and
\* a spawnCustomer call made when it holds MAX_CUSTOMERS adds nothing.
C8_CustomerCap ==
    /\ [](Len(Customers) <= MAX_CUSTOMERS)
    /\ [][(last'.op = "spawnCustomer" /\ Len(Customers) >= MAX_CUSTOMERS)
            => UNCHANGED <<gameState, npc, nextId>>]_vars

\* a spawnCustomer call has just been refused, the list being full
C8_Witness ==
    /\ last.op = "spawnCustomer" /\ last.arg = 0
    /\ Len(Customers) = MAX_CUSTOMERS

\* C9: a serve that targets an Entering customer changes nothing, whatever
\* is held: the customer stays Entering, no order is added or removed, the
\* economy totals and the held item stay.
C9_ServeEnteringRejected ==
    [][\A c \in DOMAIN npc :
        (ServedStep(c) /\ npc[c].state = "entering")
        => UNCHANGED <<gameState, physicsState, npc>>
    ]_vars

\* a serve has just been refused because the customer is still walking
C9_Witness ==
    /\ last.op = "serveToCustomer" /\ last.note = "Wait!"
    /\ npc[last.arg].state = "entering"
    /\ Held # NoItem

\* customer c has been served: it is leaving, or its leave animation has
\* removed it
WasServed(c) == c < nextId /\ (c \notin DOMAIN npc \/ npc[c].state = "leaving")

\* C10: a customer that has been served has no order in activeOrders, from
\* the serve on; it is removed from the customers list (given its animation
\* frames keep firing), and once it is out of the list it never returns.
C10_RoundTrip ==
    /\ \A c \in 1..MaxSpawned :
        (c \in DOMAIN npc /\ npc[c].state = "leaving")
            ~> (c \notin DOMAIN npc /\ ~InList(c))
    /\ [][\A c \in 1..MaxSpawned :
            /\ ((c \in DOMAIN npc /\ npc[c].state = "waiting") /\ WasServed(c)')
                => (OrdersOf(c) # {} /\ OrdersOf(c)' = {})
            /\ WasServed(c) => (WasServed(c)' /\ OrdersOf(c)' = {})
            /\ (WasServed(c) /\ ~InList(c)) => ~InList(c)'
       ]_vars

\* a customer has made the whole trip: served and removed, no order left
C10_Witness ==
    \E c \in 1..MaxSpawned :
        /\ c < nextId /\ c \notin DOMAIN npc
        /\ ~InList(c) /\ OrdersOf(c) = {}
        /\ gameState.customersServed >= 1

\* the payment of an order: the menu prices of its items added up, 4 for an
\* item the menu does not list
RECURSIVE PaymentOf(_, _)
PaymentOf(items, n) ==
    IF n = 0 THEN 0
    ELSE PaymentOf(items, n - 1)
            + (IF items[n] \in MENU_ITEMS THEN MenuPrice(items[n]) ELSE 4)

\* floor(payment * 0.2 * m), m = 1.3, 1.1 or 0.8 by the quality
TipOf(payment, quality) ==
    IF quality >= 80 THEN (payment * 26) \div 100
    ELSE IF quality >= 50 THEN (payment * 22) \div 100
    ELSE (payment * 16) \div 100

\* the step just taken ran completeOrder on the order in activeOrders
CompletedStep == last'.op = "completeOrder" /\ Len(ActiveOrders) = 1

\* C11: completeOrder adds payment + tip to money, the payment being the sum
\* of the menu prices of the order's items (4 for an unlisted item) and the
\* tip floor(payment * 0.2 * m), m = 1.3 from quality 80, 1.1 from 50, else
\* 0.8; it adds 1 to customersServed; payment 5 at quality 90 pays 6.
C11_PaymentAndTip ==
    [][CompletedStep =>
        LET items == ActiveOrders[1].items
            payment == PaymentOf(items, Len(items))
            quality == last'.arg
        IN /\ gameState'.money = gameState.money + payment + TipOf(payment, quality)
           /\ gameState'.customersServed = gameState.customersServed + 1
           /\ (payment = 5 /\ quality = 90) => gameState'.money = gameState.money + 6
    ]_vars

\* a latte (5) has been completed at quality 90: 6 was paid
C11_Witness ==
    /\ last.op = "completeOrder" /\ last.arg = 90
    /\ 1 \in DOMAIN npc /\ npc[1].order = <<"latte">>
    /\ gameState.money = STARTING_MONEY + 6
    /\ gameState.customersServed = 1

\* C12: the rating is within [1, 5] in every state, and completeOrder moves
\* it by +0.1 from quality 80, by 0 from quality 50 and by -0.1 below, the
\* result clamped to [1, 5].
C12_RatingClamped ==
    /\ [](gameState.rating >= 10 /\ gameState.rating <= 50)
    /\ [][CompletedStep =>
            LET quality == last'.arg
                moved == gameState.rating
                            + (IF quality >= 80 THEN 1 ELSE IF quality >= 50 THEN 0 ELSE -1)
            IN gameState'.rating =
                    (IF moved > 50 THEN 50 ELSE IF moved < 10 THEN 10 ELSE moved)
       ]_vars

\* a poor drink has been completed with the rating at the floor
C12_Witness ==
    /\ last.op = "completeOrder" /\ last.arg < 50
    /\ gameState.rating = 10
    /\ gameState.customersServed = 1

\* money, rating and customersServed
Economy == <<gameState.money, gameState.rating, gameState.customersServed>>

\* the step just taken is a step of a session (not the start of one)
InSession == gameState.isPlaying /\ gameState'.isPlaying

\* the step just taken ran completeOrder (from the serve that matched)
CompleteOrderRan == last'.op = "serveToCustomer" /\ last'.note = "+$"

\* C13 as claimed: during a session no operation but completeOrder changes
\* money, rating or customersServed.
C13_SoleMutator ==
    [][(InSession /\ Economy' # Economy) => CompleteOrderRan]_vars

\* C13, amended: during a session no operation but completeOrder changes
\* rating or customersServed, and none but completeOrder and a purchase
\* changes money; the purchase subtracts the price.
C13_SoleMutatorButPurchase ==
    [][(InSession /\ Economy' # Economy) =>
        \/ CompleteOrderRan
        \/ /\ last'.op = "buyUpgrade" /\ last'.note = "Purchased!"
           /\ gameState'.money = gameState.money - last'.arg
           /\ gameState'.rating = gameState.rating
           /\ gameState'.customersServed = gameState.customersServed
    ]_vars

\* in one session a customer has been served and an upgrade bought
C13_Witness ==
    /\ gameState.isPlaying
    /\ last.op = "buyUpgrade" /\ last.note = "Purchased!"
    /\ gameState.customersServed = 1
    /\ gameState.money = STARTING_MONEY + 8 - last.arg

\* C14: money is never negative; a buyUpgrade with money below the price
\* changes neither gameState (money, ownedUpgrades) nor runs the upgrade's
\* effect, and one with money at or above the price subtracts the price.
C14_PurchaseGuard ==
    /\ [](gameState.money >= 0)
    /\ [][last'.op = "buyUpgrade" =>
            LET price == last'.arg IN
            /\ gameState.money < price => UNCHANGED <<gameState, upgradeEffects>>
            /\ gameState.money >= price => gameState'.money = gameState.money - price
       ]_vars

\* a purchase has just been refused, after one that went through
C14_Witness ==
    /\ last.op = "buyUpgrade" /\ last.note = "Not enough money!"
    /\ gameState.money < last.arg
    /\ Len(gameState.ownedUpgrades) = 1
    /\ gameState.money = STARTING_MONEY - UpgradePrice(gameState.ownedUpgrades[1])

\* C15: a session starts from the initial gameState: the starting money,
\* rating 5.0, nobody served, no orders, no customers, no upgrades owned.
C15_ResetOnRestart ==
    [][(~gameState.isPlaying /\ gameState'.isPlaying) =>
        /\ gameState'.money = STARTING_MONEY
        /\ gameState'.rating = 50
        /\ gameState'.customersServed = 0
        /\ gameState'.activeOrders = <<>>
        /\ gameState'.customers = <<>>
        /\ gameState'.ownedUpgrades = <<>>
    ]_vars

MiniGame == miniGameState

\* the double x = t / S + e / (S * 2^k) against the number c / S
AtLeast(t, e, c) == t > c \/ (t = c /\ e >= 0)
AtMost(t, e, c) == t < c \/ (t = c /\ e <= 0)

\* the step just taken ran handleMiniGameInput on an active timing game
TimingInputStep ==
    /\ MiniGame.active /\ MiniGame.type = "timing"
    /\ last'.op = "handleMiniGameInput"

\* C18: a timing-game input with the marker at p and the target window
\* [s, e] scores 100 iff s+5 <= p <= e-5, 70 iff s <= p <= e and not so, 40
\* iff s-10 <= p <= e+10 and not within [s, e], 10 otherwise, p being the
\* double the marker holds; with [35, 65], positions 47, 38, 28 and 5 score
\* 100, 70, 40 and 10.
C18_TimingScore ==
    /\ timingQuality(470, 0, 350, 650) = 100
    /\ timingQuality(380, 0, 350, 650) = 70
    /\ timingQuality(280, 0, 350, 650) = 40
    /\ timingQuality(50, 0, 350, 650) = 10
    /\ [][TimingInputStep =>
        LET p == MiniGame.markerPos
            err == MiniGame.markerErr
            s == MiniGame.targetStart
            e == MiniGame.targetEnd
            perfect == AtLeast(p, err, s + 50) /\ AtMost(p, err, e - 50)
            good == AtLeast(p, err, s) /\ AtMost(p, err, e)
            ok == AtLeast(p, err, s - 100) /\ AtMost(p, err, e + 100)
            score == MiniGame'.quality
        IN /\ score \in {100, 70, 40, 10}
           /\ score = 100 <=> perfect
           /\ score = 70 <=> (good /\ ~perfect)
           /\ score = 40 <=> (ok /\ ~good)
           /\ score = 10 <=> ~ok
       ]_vars

\* 25 frames into a game with the window [40, 60] the marker, at
\* 29.99999999999999, has just been scored 10: it is left of 30 = 40 - 10
C18_Witness ==
    /\ last.op = "handleMiniGameInput"
    /\ MiniGame.type = "timing" /\ ~MiniGame.active
    /\ MiniGame.markerPos = 300 /\ MiniGame.markerErr < 0
    /\ MiniGame.targetStart = 400 /\ MiniGame.targetEnd = 600
    /\ MiniGame.quality = 10

\* C19: the input to an active timing game scores the marker, runs the
\* completion callback once (the ingredient is in the cup) and ends the
\* session, all in the one step; with no session active a press is not given
\* to the mini-game: the quality stays as scored unless the press starts a
\* new game.
C19_TimingOneInput ==
    [][/\ TimingInputStep =>
            /\ ~MiniGame'.active
            /\ MiniGame'.quality > 0
            /\ last'.note = "callback"
            /\ Held'.itemType = Held.itemType
            /\ Held'.contents = Held.contents \cup {MiniGame.callback}
       /\ ~MiniGame.active =>
            /\ last'.op # "handleMiniGameInput"
            /\ \/ MiniGame'.quality = MiniGame.quality
               \/ MiniGame'.active /\ MiniGame'.quality = 0
    ]_vars

\* a timing game has been scored and ended, and the next press went to the
\* world: the cup, with its espresso, was dropped
C19_Witness ==
    /\ ~MiniGame.active /\ MiniGame.type = "timing" /\ MiniGame.quality = 100
    /\ Held = NoItem
    /\ last.op = "dropItem"

\* the step just taken ran handleMiniGameInput on an active tap game
TapInputStep ==
    /\ MiniGame.active /\ MiniGame.type = "tap"
    /\ last'.op = "handleMiniGameInput"

\* C20: a tap-game input adds 1 to the counter; the game completes on that
\* input iff the counter is then at least 12, and on no other step (a frame
\* only lowers the counter, a cancel leaves quality 0); the quality at completion
\* is 100 if the input came less than 2000 ms after the start, 70 if less
\* than 3500 ms, 40 otherwise (1500: 100, 3000: 70, 5000: 40).
C20_TapCompletion ==
    [][/\ (MiniGame.active /\ MiniGame.type = "tap" /\ ~TapInputStep) =>
            (MiniGame'.active \/ MiniGame'.quality = 0)
       /\ TapInputStep =>
        LET counter == MiniGame.tapProgress + 100
            elapsed == last'.arg
        IN /\ MiniGame'.tapProgress = counter
           /\ ~MiniGame'.active <=> AtLeast(counter, MiniGame'.tapErr, 1200)
           /\ MiniGame'.active =>
                /\ MiniGame'.quality = 0
                /\ Held' = Held
           /\ ~MiniGame'.active =>
                /\ last'.note = "callback"
                /\ elapsed < 2000 => MiniGame'.quality = 100
                /\ (elapsed >= 2000 /\ elapsed < 3500) => MiniGame'.quality = 70
                /\ elapsed >= 3500 => MiniGame'.quality = 40
                /\ elapsed = 1500 => MiniGame'.quality = 100
                /\ elapsed = 3000 => MiniGame'.quality = 70
                /\ elapsed = 5000 => MiniGame'.quality = 40
    ]_vars

\* a tap game has just completed on a thirteenth tap, decay having kept the
\* twelfth below 12, 3 s after it started
C20_Witness ==
    /\ last.op = "handleMiniGameInput" /\ last.arg = 3000
    /\ MiniGame.type = "tap" /\ ~MiniGame.active
    /\ MiniGame.tapProgress > 1200
    /\ MiniGame.quality = 70

\* C16: the one slot for a held item and the one mini-game session are never
\* overwritten: grabbedObject is set exactly when isGrabbing is, grabCup and
\* grabPastry run only with nothing held, and startMiniGame runs only with no
\* session active.
C16_OneItemOneMiniGame ==
    /\ [](physicsState.isGrabbing <=> Held # NoItem)
    /\ [][/\ last'.op \in {"grabCup", "grabPastry"} =>
                (Held = NoItem /\ ~physicsState.isGrabbing /\ Held' # NoItem)
          /\ last'.op = "startMiniGame" =>
                (~MiniGame.active /\ MiniGame'.active /\ Held' = Held)
       ]_vars

\* a second mini-game has just been started for the cup, the first one over
\* and its espresso in the cup
C16_Witness ==
    /\ last.op = "startMiniGame"
    /\ MiniGame.active /\ MiniGame.type = "tap"
    /\ Held.itemType = "cup" /\ Held.contents = {"espresso"}

\* the step just taken ran throwItem, which no interact press does, with an
\* item in hand
ThrowStep == last'.op = "throwItem" /\ Held # NoItem /\ Held' = NoItem

\* C17: while a mini-game is active no press reaches the world: no serve,
\* grab, drop, trash, syrup or mini-game start runs, and a press leaves the
\* held item, the orders and the customers as they are unless it is the
\* press that completes the game, which adds the game's ingredient to the
\* cup in hand. The hand changes otherwise only by a throwItem, which is
\* not an interact press.
C17_MiniGameModal ==
    [][MiniGame.active =>
        /\ last'.op \notin {"serveToCustomer", "grabCup", "grabPastry", "startMiniGame",
                            "dropItem", "trashItem", "addToCup"}
        /\ last'.op = "handleMiniGameInput" =>
            /\ ActiveOrders' = ActiveOrders
            /\ npc' = npc
            /\ \/ Held' = Held
               \/ /\ ~MiniGame'.active /\ MiniGame'.quality > 0
                  /\ Held' = [Held EXCEPT !.contents = @ \cup {MiniGame.callback}]
        /\ \/ Held' = Held
           \/ ThrowStep
           \/ /\ last'.op = "handleMiniGameInput"
              /\ ~MiniGame'.active /\ MiniGame'.quality > 0
    ]_vars

\* a press has just been taken by the tap game, a customer waiting with its
\* order and the cup in hand
C17_Witness ==
    /\ MiniGame.active /\ MiniGame.type = "tap" /\ MiniGame.tapProgress >= 100
    /\ last.op = "handleMiniGameInput"
    /\ Held.itemType = "cup"
    /\ \E c \in DOMAIN npc : npc[c].state = "waiting" /\ OrdersOf(c) # {}

\* C21: the tap counter is never negative, whatever the taps and the frames,
\* and a frame never completes the game (a tap game ends on an input or by
\* a cancel, which leaves quality 0).
C21_TapCounterFloored ==
    /\ [](AtLeast(MiniGame.tapProgress, MiniGame.tapErr, 0))
    /\ [][(MiniGame.active /\ MiniGame.type = "tap" /\ ~TapInputStep) =>
            (MiniGame'.active \/ MiniGame'.quality = 0)]_vars

\* the step just taken cancelled the active mini-game: the session ended
\* with quality 0 (a completion leaves 10 or more)
CancelStep == MiniGame.active /\ ~MiniGame'.active /\ MiniGame'.quality = 0

\* C22: a cancel ends the session with quality 0 and changes nothing else:
\* the held cup (contents and quality), gameState and the customers stay. The
\* cup is as it was when the game started (the start and every step of the
\* game but its completion leave it in hand as it is, or, by a throwItem,
\* take it out of the hand), and the cancelled session's callback
\* never runs later: an ingredient enters a held cup only in the step that
\* completes the active game (that game's ingredient) or, with no game
\* active, at a syrup pump.
C22_CancelNoEffect ==
    [][/\ CancelStep =>
            /\ UNCHANGED <<physicsState, gameState, npc>>
            /\ last'.note # "callback"
       /\ (~MiniGame.active /\ MiniGame'.active) => Held' = Held
       /\ (MiniGame.active /\ MiniGame'.active) => (Held' = Held \/ ThrowStep)
       /\ (Held'.itemType = "cup" /\ Held.itemType = "cup"
              /\ Held'.contents # Held.contents) =>
            \/ /\ MiniGame.active /\ ~MiniGame'.active /\ MiniGame'.quality > 0
               /\ Held'.contents = Held.contents \cup {MiniGame.callback}
            \/ /\ ~MiniGame.active /\ ~MiniGame'.active
               /\ Held.contents \subseteq Held'.contents
               /\ (Held'.contents \ Held.contents) \subseteq SyrupTypes
    ]_vars

\* a tap game has been cancelled at eleven taps, the cup still empty
C22_Witness ==
    /\ ~MiniGame.active /\ MiniGame.type = "tap" /\ MiniGame.quality = 0
    /\ MiniGame.tapProgress >= 1100
    /\ Held.itemType = "cup" /\ Held.contents = {}

\* C23: a cup that matches an order matches it with any further ingredients
\* added; and a held cup that matches a customer's order still matches it
\* after any step that leaves the cup in hand and the order in activeOrders.
C23_MatchMonotonic ==
    /\ [](\A i \in 1..Len(ActiveOrders) :
            (Held.itemType = "cup" /\ matchFound(Held, ActiveOrders[i].items)) =>
                \A more \in SUBSET Ingredients :
                    matchFound([Held EXCEPT !.contents = @ \cup more],
                               ActiveOrders[i].items))
    /\ [][\A i \in 1..Len(ActiveOrders) :
            ( /\ Held.itemType = "cup" /\ Held'.itemType = "cup"
              /\ matchFound(Held, ActiveOrders[i].items)
              /\ i \in 1..Len(ActiveOrders') /\ ActiveOrders'[i] = ActiveOrders[i] )
            => /\ Held.contents \subseteq Held'.contents
               /\ matchFound(Held', ActiveOrders'[i].items)
       ]_vars

\* a cup that matched the latte as drawn has had a syrup and then another
\* espresso added, and matches
C23_Witness ==
    /\ Held.itemType = "cup"
    /\ {"espresso", "milk", "vanilla"} \subseteq Held.contents
    /\ ~MiniGame.active /\ MiniGame.type = "timing" /\ MiniGame.quality > 0
    /\ Len(ActiveOrders) = 1 /\ ActiveOrders[1].items = <<"latte">>
    /\ matchFound(Held, ActiveOrders[1].items)

\* C26: the serve of a held item to a waiting customer with an order
\* completes the order iff the item matches by the reference rule: a pastry
\* iff the order lists a pastry; a cup iff the order lists a drink whose
\* recipe's ingredients are all in the cup.
C26_MatchDecision ==
    [][\A c \in DOMAIN npc :
        ( /\ ServedStep(c)
          /\ Held # NoItem
          /\ npc[c].state = "waiting"
          /\ OrdersOf(c) # {} )
        => /\ last'.note \in {"+$", "Wrong item!"}
           /\ last'.note = "+$" <=> SpecMatch(Held, OrderItems(c))
    ]_vars

\* a cup with every ingredient has been served for a latte and taken
C26_Witness ==
    /\ last.op = "serveToCustomer" /\ last.note = "+$"
    /\ npc[1].order = <<"latte", "croissant">>
    /\ gameState.customersServed = 1
    /\ gameState.money = STARTING_MONEY + 11

\* an order as generateOrder is to make it: one drink, or a drink and then a
\* pastry
WellFormedOrder(items) ==
    /\ Len(items) \in {1, 2}
    /\ items[1] \in Drinks
    /\ Len(items) = 2 => items[2] \in Pastries

\* C24: every order generateOrder gives a customer, and every order that
\* reaches activeOrders, is of 1 or 2 items, the first a drink and the second,
\* if any, a pastry; the spawn that draws it changes nothing but the customer
\* it makes and the list it joins.
C24_OrderShape ==
    /\ [](/\ \A c \in DOMAIN npc : WellFormedOrder(npc[c].order)
          /\ \A i \in 1..Len(ActiveOrders) : WellFormedOrder(ActiveOrders[i].items))
    /\ [][last'.op = "spawnCustomer" =>
            /\ [gameState' EXCEPT !.customers = gameState.customers] = gameState
            /\ UNCHANGED <<physicsState, miniGameState, shopOpen, upgradeEffects>>
            /\ \A c \in DOMAIN npc : c \in DOMAIN npc' /\ npc'[c] = npc[c]
       ]_vars

\* two customers wait, one for a drink alone and one for a drink and a pastry
C24_Witness ==
    /\ Len(ActiveOrders) = 2
    /\ \E i, j \in 1..2 :
        Len(ActiveOrders[i].items) = 1 /\ Len(ActiveOrders[j].items) = 2

\* where a customer is on its way: its state while it is on the customers
\* list, "removed" once it is off the list
Life(c) == IF InList(c) THEN npc[c].state ELSE "removed"

\* a step that resets the session: quitToMenu or startGame, both of which
\* empty the customers list
ResetStep == gameState'.isPlaying # gameState.isPlaying

\* C25 as stated: every customer ever spawned moves only from Entering to
\* Waiting, from Waiting to Leaving and from Leaving to removed; nothing is
\* skipped or revisited, a removed customer is never re-added, and Waiting ->
\* Leaving is taken only by the serve of that customer that completes its
\* order.
C25_CustomerLifeCycle ==
    [][\A c \in DOMAIN npc :
        \/ Life(c)' = Life(c)
        \/ Life(c) = "entering" /\ Life(c)' = "waiting"
        \/ /\ Life(c) = "waiting" /\ Life(c)' = "leaving"
           /\ ServedStep(c) /\ last'.note = "+$"
        \/ Life(c) = "leaving" /\ Life(c)' = "removed"
    ]_vars

\* C25, amended: a customer moves only along Entering -> Waiting -> Leaving ->
\* removed, except that a session reset (quitToMenu, startGame) takes every
\* customer off the list whatever its state; a removed customer is never re-added, a customer
\* object's state never goes back or skips, and Waiting -> Leaving is taken
\* only by the serve of that customer that completes its order.
C25_LifeCycleButReset ==
    [][\A c \in DOMAIN npc :
        /\ \/ Life(c)' = Life(c)
           \/ Life(c) = "entering" /\ Life(c)' = "waiting"
           \/ Life(c) = "waiting" /\ Life(c)' = "leaving"
           \/ Life(c) = "leaving" /\ Life(c)' = "removed"
           \/ ResetStep /\ Life(c)' = "removed"
        /\ c \in DOMAIN npc' =>
            \/ npc'[c].state = npc[c].state
            \/ npc[c].state = "entering" /\ npc'[c].state = "waiting"
            \/ /\ npc[c].state = "waiting" /\ npc'[c].state = "leaving"
               /\ ServedStep(c) /\ last'.note = "+$"
        /\ c \notin DOMAIN npc' => npc[c].state = "leaving"
        /\ \A d \in 1..(nextId - 1) : d \notin DOMAIN npc => d \notin DOMAIN npc'
    ]_vars

\* one customer has gone the whole way and left the cafe, and quitToMenu has
\* taken another off the list while it waited
C25_Witness ==
    /\ ~gameState.isPlaying
    /\ \E c \in 1..(nextId - 1) : c \notin DOMAIN npc
    /\ \E d \in DOMAIN npc : npc[d].state = "waiting" /\ ~InList(d) /\ d = nextId - 1

\* the customers that have left Waiting: those Leaving and those whose
\* animation has ended
Resolved == {c \in 1..(nextId - 1) : WasServed(c)}

\* C27: a serve that targets a Leaving customer changes nothing, whatever the
\* player holds; the serve that pays finds its customer Waiting and leaves it
\* Leaving, so customersServed never exceeds the number of customers that
\* have left Waiting.
C27_PaidAtMostOnce ==
    /\ [][\A c \in DOMAIN npc :
            /\ (ServedStep(c) /\ npc[c].state = "leaving") =>
                /\ UNCHANGED <<gameState, physicsState, miniGameState, npc,
                               nextId, shopOpen, upgradeEffects>>
                /\ last'.note # "+$"
            /\ (ServedStep(c) /\ last'.note = "+$") =>
                /\ npc[c].state = "waiting" /\ npc'[c].state = "leaving"
                /\ gameState'.customersServed = gameState.customersServed + 1
       ]_vars
    /\ [](gameState.customersServed <= Cardinality(Resolved))

\* the player, a pastry in hand, has just pressed E on a customer that was
\* served and has not yet left the cafe
C27_Witness ==
    /\ last.op = "serveToCustomer" /\ last.note = "Order pending"
    /\ last.arg \in DOMAIN npc
    /\ npc[last.arg].state = "leaving" /\ InList(last.arg)
    /\ Held # NoItem
    /\ gameState.customersServed = 1

\* C28: at most one spawn-loop timer is pending at any time, also after a
\* quitToMenu and a startGame that follows it within one spawn interval.
C28_OneLoopTimer == timers.loop <= 1

\* the operations an interact press runs that the history names
PressOps ==
    {"grabCup", "grabPastry", "serveToCustomer", "startMiniGame",
     "handleMiniGameInput", "dropItem", "trashItem", "addToCup"}

\* C29: while the session is paused an interact press changes no core state:
\* the held item, the mini-game, activeOrders, the customers, money, rating
\* and customersServed stay as they were.
C29_PausedPressInert ==
    [][(gameState.isPaused /\ last'.op \in PressOps) =>
        UNCHANGED <<physicsState, miniGameState, gameState, npc>>]_vars

\* C30: right after startGame the player holds no item and no mini-game is
\* active, whatever the session before left behind.
C30_FreshSession ==
    [][(~gameState.isPlaying /\ gameState'.isPlaying) =>
        (Held' = NoItem /\ ~physicsState'.isGrabbing /\ ~MiniGame'.active)]_vars

====
